---- MODULE Spec2Model ----
(***************************************************************************)
(* The xDS resolver state machine of xds/internal/resolver/xds_resolver.go *)
(* (type xdsResolver), its callback serializer, its watchers, its config   *)
(* selectors and the RPCs the channel admits through them.                 *)
(*                                                                         *)
(* Every serializer callback is one action.  The only state reached from   *)
(* outside the serializer is clusterInfo.refCount (atomic): picks and      *)
(* OnCommitted hooks are actions of their own, and an OnCommitted hook may *)
(* also run inside sendNewServiceConfig, between pruneActiveClusters and   *)
(* the UpdateState call (input `d` of the callbacks that emit).            *)
(***************************************************************************)
EXTENDS Integers, Sequences, FiniteSets

\* ------------------------------------------------------------------ bounds
MaxQueue == 2       \* callbacks the watchers / hooks may leave pending
MaxInflight == 1    \* admitted RPCs whose OnCommitted hook has not fired
MaxCloseCalls == 2  \* calls of Close() by the channel
MaxDrain == 1       \* callbacks pending when the channel calls Close()

\* --------------------------------------------------------- cluster keys
clusterPrefix == "cluster:"
clusterSpecifierPluginPrefix == "csp:"
kA == <<clusterPrefix, "A">>
kP == <<clusterSpecifierPluginPrefix, "P">>
ClusterKeys == {kA, kP}

NoCluster == <<"none">>   \* "no RPC completes inside this callback"

\* ------------------------------------------------- resources (inputs)
\* A route: the cluster keys of its action, whether RouteToMatcher accepts
\* its match expression, and whether the child configuration recorded for
\* its clusters can be marshalled to JSON.
Route(cl, m, j) == [clusters |-> cl, matchOk |-> m, cfgOk |-> j]

\* Listener resource names Build can produce (template with %s replaced).
DefaultTemplate == <<"%s">>
AuthTemplate == <<"xdstp://auth/", "%s">>
Endpoint == "svc"

RECURSIVE PopulateResourceTemplate(_, _)
PopulateResourceTemplate(template, endpoint) ==
    IF template = <<>> THEN <<>>
    ELSE <<IF Head(template) = "%s" THEN endpoint ELSE Head(template)>>
         \o PopulateResourceTemplate(Tail(template), endpoint)

\* The domains of the virtual hosts the management server sends.
Domains == {PopulateResourceTemplate(DefaultTemplate, Endpoint)}

VHost(doms, rts) == [domains |-> doms, routes |-> rts]

\* RouteConfigUpdate values the management server may send.
rcA    == [virtualHosts |-> <<VHost(Domains, <<Route({kA}, TRUE, TRUE)>>)>>]
rcAP   == [virtualHosts |-> <<VHost(Domains,
              <<Route({kA}, TRUE, TRUE), Route({kP}, TRUE, TRUE)>>)>>]
rcBadMatch == [virtualHosts |-> <<VHost(Domains,
              <<Route({kP}, TRUE, TRUE), Route({kA}, FALSE, TRUE)>>)>>]
rcBadCfg == [virtualHosts |-> <<VHost(Domains,
              <<Route({kA}, TRUE, TRUE), Route({kP}, TRUE, FALSE)>>)>>]
rcNoVh == [virtualHosts |-> <<VHost({}, <<Route({kA}, TRUE, TRUE)>>)>>]
RouteConfigs == {rcA, rcAP, rcBadMatch, rcBadCfg, rcNoVh}

RdsNames == {"rc1", "rc2"}

\* ListenerUpdate: an inline route configuration (<<rc>>) or a name, and the
\* HTTP filters and stream duration the selectors are built with.
ListenerUpdates ==
    [inline : {<<rc>> : rc \in {rcA, rcNoVh}}, routeConfigName : {""},
     HTTPFilters : {"router"}]
    \cup [inline : {<<>>}, routeConfigName : RdsNames, HTTPFilters : {"router"}]

\* ------------------------------------------------------------ selectors
NilSel == 0
SelIds == {1, 2, 3}
FreeSel == [clusters |-> {}, stops |-> 0]

\* ------------------------------------------------------------ callbacks
\* A pending callback: who scheduled it ("lds": the listener watcher, "rds":
\* the route-config watcher of resource n, "refDown": a selector stop or an
\* OnCommitted hook).  What an xDS callback carries (update, error or
\* not-found, and the resource) is read when the callback runs.
Ev(src, n) == [src |-> src, n |-> n]
evRefDown == Ev("refDown", "")


\* ---------------------------------------------------------------- state
VARIABLES
    built,                  \* "no" | "ok" | "failed": outcome of Build
    serializerCancelled,    \* serializerCancel() was called
    closing,                \* a Close() call waits on <-r.serializer.Done()
    closeCalls,             \* Close() calls that have returned
    queue,                  \* callbacks pending on r.serializer (FIFO)
    xdsClientClose,         \* r.xdsClientClose is non-nil
    xdsClientRefs,          \* references this resolver holds on the xDS client
    ldsResourceName,
    listenerWatcher,        \* "nil" | "active" | "stopped"
    listenerUpdateRecvd,
    currentListener,        \* <<>> or <<the fields of the ListenerUpdate read later>>
    rdsResourceName,
    routeConfigWatcher,     \* <<>> (nil) or <<[name, stopped]>>
    unstoppedRds,           \* route-config watchers not stopped, per name
    routeConfigUpdateRecvd,
    currentRouteConfig,     \* <<>> or <<RouteConfigUpdate>>
    currentVirtualHost,     \* <<>> (nil) or <<VirtualHost>>
    activeClusters,         \* keys of r.activeClusters
    cfgOk,                  \* clusterInfo.cfg of each entry can be marshalled
    refCount,               \* clusterInfo.refCount of each entry
    curConfigSelector,      \* NilSel or a selector id
    sel,                    \* the configSelector objects still referenced
    chanSel,                \* selector the channel got with its last UpdateState
    chanConfig,             \* service config the channel got last (<<>>: none)
    inflight,               \* admitted RPCs per cluster, OnCommitted pending
    op,                     \* the operation the last step ran
    last                    \* what that step did (calls on the channel)

vars == <<built, serializerCancelled, closing, closeCalls, queue,
          xdsClientClose, xdsClientRefs, ldsResourceName, listenerWatcher,
          listenerUpdateRecvd, currentListener, rdsResourceName,
          routeConfigWatcher, unstoppedRds, routeConfigUpdateRecvd,
          currentRouteConfig, currentVirtualHost, activeClusters, cfgOk,
          refCount, curConfigSelector, sel, chanSel, chanConfig, inflight,
          op, last>>

\* The state as one record, threaded through the methods below.
World ==
    [built |-> built, serializerCancelled |-> serializerCancelled,
     closing |-> closing, closeCalls |-> closeCalls, queue |-> queue,
     xdsClientClose |-> xdsClientClose, xdsClientRefs |-> xdsClientRefs,
     ldsResourceName |-> ldsResourceName, listenerWatcher |-> listenerWatcher,
     listenerUpdateRecvd |-> listenerUpdateRecvd,
     currentListener |-> currentListener, rdsResourceName |-> rdsResourceName,
     routeConfigWatcher |-> routeConfigWatcher, unstoppedRds |-> unstoppedRds,
     routeConfigUpdateRecvd |-> routeConfigUpdateRecvd,
     currentRouteConfig |-> currentRouteConfig,
     currentVirtualHost |-> currentVirtualHost,
     activeClusters |-> activeClusters, cfgOk |-> cfgOk, refCount |-> refCount,
     curConfigSelector |-> curConfigSelector, sel |-> sel, chanSel |-> chanSel,
     chanConfig |-> chanConfig, inflight |-> inflight, last |-> last]

\* Selector objects nobody references any more are dropped.
Collect(w) ==
    [w EXCEPT !.sel = [i \in SelIds |->
        IF i \in {w.curConfigSelector, w.chanSel} THEN w.sel[i] ELSE FreeSel],
              !.cfgOk = [c \in ClusterKeys |->
        c \in w.activeClusters => w.cfgOk[c]]]

Commit(w0) ==
    \E w \in {Collect(w0)} :
    /\ built' = w.built
    /\ serializerCancelled' = w.serializerCancelled
    /\ closing' = w.closing
    /\ closeCalls' = w.closeCalls
    /\ queue' = w.queue
    /\ xdsClientClose' = w.xdsClientClose
    /\ xdsClientRefs' = w.xdsClientRefs
    /\ ldsResourceName' = w.ldsResourceName
    /\ listenerWatcher' = w.listenerWatcher
    /\ listenerUpdateRecvd' = w.listenerUpdateRecvd
    /\ currentListener' = w.currentListener
    /\ rdsResourceName' = w.rdsResourceName
    /\ routeConfigWatcher' = w.routeConfigWatcher
    /\ unstoppedRds' = w.unstoppedRds
    /\ routeConfigUpdateRecvd' = w.routeConfigUpdateRecvd
    /\ currentRouteConfig' = w.currentRouteConfig
    /\ currentVirtualHost' = w.currentVirtualHost
    /\ activeClusters' = w.activeClusters
    /\ cfgOk' = w.cfgOk
    /\ refCount' = w.refCount
    /\ curConfigSelector' = w.curConfigSelector
    /\ sel' = w.sel
    /\ chanSel' = w.chanSel
    /\ chanConfig' = w.chanConfig
    /\ inflight' = w.inflight
    /\ last' = w.last

\* F(v), with v evaluated once.
Let(v, F(_)) == CHOOSE r \in {F(x) : x \in {v}} : TRUE

\* The record of one step: its input, and the calls it made on the channel
\* and on selectors.
Log(n, stale, prev) ==
    [n |-> n, lds |-> [inline |-> FALSE, routeConfigName |-> ""],
     stale |-> stale, prev |-> prev, updates |-> <<>>,
     reports |-> 0, errs |-> <<>>, stopped |-> <<>>, discarded |-> FALSE,
     committed |-> NoCluster]
Begin(w, n) ==
    [w EXCEPT !.last = Log(n, FALSE, w.curConfigSelector)]

\* ------------------------------------------------- channel (ClientConn)
EmptyConfig == [empty |-> TRUE, children |-> {}]

\* cc.UpdateState: the channel keeps the service config and the attached
\* selector; the step's record keeps the table and refCounts at the call.
UpdateState(w, sc, cs) ==
    [w EXCEPT !.chanConfig = <<sc>>, !.chanSel = cs,
              !.last.updates = Append(@,
                  [sc |-> sc, cs |-> cs, refCount |-> w.refCount,
                   activeClusters |-> w.activeClusters,
                   inflight |-> w.inflight, committed |-> w.last.committed])]

\* cc.ReportError(err): err is the kind of the error handed over.
ReportError(w, err) ==
    [w EXCEPT !.last.reports = @ + 1, !.last.errs = Append(@, err)]

\* --------------------------------------------------- serializer.Schedule
\* A callback scheduled after the context was cancelled is discarded.
Schedule(w, e) ==
    IF w.serializerCancelled THEN [w EXCEPT !.last.discarded = TRUE]
    ELSE [w EXCEPT !.queue = Append(@, e)]

\* ------------------------------------------------------- active clusters
\* (variants of pruneActiveClusters with a slip: nothing is pruned; entries
\* with one reference left are pruned too)
pruneActiveClusters_none(w) == w
pruneActiveClusters_inUse(w) ==
    [w EXCEPT !.activeClusters = {c \in @ : w.refCount[c] > 1}]

pruneActiveClusters(w) ==
    [w EXCEPT !.activeClusters = {c \in @ : w.refCount[c] # 0}]

addOrGetActiveClusterInfo(w, name) ==
    IF name \in w.activeClusters THEN w
    ELSE [w EXCEPT !.activeClusters = @ \cup {name}, !.refCount[name] = 0,
                   !.cfgOk[name] = TRUE]

\* The child configurations can all be marshalled.
serviceConfigJSON(w) ==
    [err |-> \E c \in w.activeClusters : ~w.cfgOk[c],
     sc |-> [empty |-> FALSE, children |-> w.activeClusters]]

\* OnCommitted hook of an RPC admitted on cluster c.
OnCommitted(w, c) ==
    Let([w EXCEPT !.refCount[c] = @ - 1, !.inflight[c] = @ - 1,
                  !.last.committed = c],
        LAMBDA w1 : IF w1.refCount[c] = 0 THEN Schedule(w1, evRefDown) ELSE w1)

\* configSelector.stop
stop(w, cs) ==
    IF cs = NilSel THEN w
    ELSE Let([w EXCEPT
                !.refCount = [c \in ClusterKeys |->
                    IF c \in w.sel[cs].clusters THEN w.refCount[c] - 1
                    ELSE w.refCount[c]],
                !.sel[cs].stops = @ + 1,
                !.last.stopped = Append(@, cs)],
             LAMBDA w1 :
                LET needUpdate ==
                        \E c \in w1.sel[cs].clusters : w1.refCount[c] = 0
                IN IF needUpdate THEN Schedule(w1, evRefDown) ELSE w1)

\* (variant of sendNewServiceConfig with a slip: the empty document is never
\* sent, an empty table is marshalled like any other)
sendNewServiceConfig_noEmpty(w, cs, d) ==
    Let(IF d = NoCluster THEN pruneActiveClusters(w)
        ELSE OnCommitted(pruneActiveClusters(w), d),
        LAMBDA w2 :
           LET j == serviceConfigJSON(w2)
           IN IF j.err
              THEN [w |-> ReportError(w2, "marshal"), ok |-> FALSE]
              ELSE [w |-> UpdateState(w2, j.sc, cs), ok |-> TRUE])

\* (variant of sendNewServiceConfig with a slip: activeClusters is not pruned)
sendNewServiceConfig_noPrune(w, cs, d) ==
    Let(IF d = NoCluster THEN w ELSE OnCommitted(w, d),
        LAMBDA w2 :
           LET j == serviceConfigJSON(w2)
           IN IF cs = NilSel /\ w2.activeClusters = {}
              THEN [w |-> UpdateState(w2, EmptyConfig, NilSel), ok |-> TRUE]
              ELSE IF j.err
              THEN [w |-> ReportError(w2, "marshal"), ok |-> FALSE]
              ELSE [w |-> UpdateState(w2, j.sc, cs), ok |-> TRUE])

\* d: the cluster of an RPC whose OnCommitted hook runs after the prune and
\* before the update reaches the channel (NoCluster: none does).
sendNewServiceConfig(w, cs, d) ==
    Let(IF d = NoCluster THEN pruneActiveClusters(w)
        ELSE OnCommitted(pruneActiveClusters(w), d),
        LAMBDA w2 :
           LET j == serviceConfigJSON(w2)
           IN IF cs = NilSel /\ w2.activeClusters = {}
              THEN [w |-> UpdateState(w2, EmptyConfig, NilSel), ok |-> TRUE]
              ELSE IF j.err
              THEN [w |-> ReportError(w2, "marshal"), ok |-> FALSE]
              ELSE [w |-> UpdateState(w2, j.sc, cs), ok |-> TRUE])

\* --------------------------------------------------- newConfigSelector
RECURSIVE addClusters(_, _, _)
addClusters(w, cl, j) ==
    IF cl = {} THEN w
    ELSE LET c == CHOOSE x \in cl : TRUE
         IN addClusters([addOrGetActiveClusterInfo(w, c) EXCEPT !.cfgOk[c] = j],
                        cl \ {c}, j)

\* The loop over r.currentVirtualHost.Routes: clusters of a route enter the
\* table before its matcher is built; an invalid matcher ends the loop.
RECURSIVE buildRoutes(_, _, _)
buildRoutes(w, routes, acc) ==
    IF routes = <<>> THEN [w |-> w, clusters |-> acc, err |-> FALSE]
    ELSE LET rt == Head(routes)
         IN IF ~rt.matchOk
            THEN [w |-> addClusters(w, rt.clusters, rt.cfgOk),
                  clusters |-> acc \cup rt.clusters, err |-> TRUE]
            ELSE buildRoutes(addClusters(w, rt.clusters, rt.cfgOk),
                             Tail(routes), acc \cup rt.clusters)

newSelId(w) ==
    CHOOSE i \in SelIds :
        /\ i \notin {w.curConfigSelector, w.chanSel}
        /\ \A k \in SelIds : k \notin {w.curConfigSelector, w.chanSel} => i <= k

\* (variant of newConfigSelector with a slip: the selector takes no
\* reference on its clusters)
newConfigSelector_noRefs(w) ==
    Let(buildRoutes(w, w.currentVirtualHost[1].routes, {}),
        LAMBDA b :
           IF b.err THEN [w |-> b.w, cs |-> NilSel, err |-> TRUE]
           ELSE [w |-> [b.w EXCEPT
                          !.sel[newSelId(w)] =
                              [clusters |-> b.clusters, stops |-> 0]],
                 cs |-> newSelId(w), err |-> FALSE])

\* (variant of newConfigSelector with a slip: the references are taken
\* before the matchers are built, and kept when a matcher is invalid)
newConfigSelector_earlyRefs(w) ==
    Let(buildRoutes(w, w.currentVirtualHost[1].routes, {}),
        LAMBDA b :
           LET w1 == [b.w EXCEPT
                        !.refCount = [c \in ClusterKeys |->
                            IF c \in b.clusters THEN b.w.refCount[c] + 1
                            ELSE b.w.refCount[c]]]
           IN IF b.err THEN [w |-> w1, cs |-> NilSel, err |-> TRUE]
              ELSE [w |-> [w1 EXCEPT
                             !.sel[newSelId(w)] =
                                 [clusters |-> b.clusters, stops |-> 0]],
                    cs |-> newSelId(w), err |-> FALSE])

newConfigSelector(w) ==
    Let(buildRoutes(w, w.currentVirtualHost[1].routes, {}),
        LAMBDA b :
           IF b.err THEN [w |-> b.w, cs |-> NilSel, err |-> TRUE]
           ELSE [w |-> [b.w EXCEPT
                          !.refCount = [c \in ClusterKeys |->
                              IF c \in b.clusters THEN b.w.refCount[c] + 1
                              ELSE b.w.refCount[c]],
                          !.sel[newSelId(w)] =
                              [clusters |-> b.clusters, stops |-> 0]],
                 cs |-> newSelId(w), err |-> FALSE])

resolutionComplete(w) ==
    w.listenerUpdateRecvd /\ w.routeConfigUpdateRecvd
    /\ w.currentVirtualHost # <<>>

\* (variant of onResolutionComplete with a slip: a selector whose service
\* config could not be emitted is not stopped)
onResolutionComplete_noStop(w, d) ==
    IF ~resolutionComplete(w) THEN w
    ELSE Let(newConfigSelector(w), LAMBDA n :
         IF n.err THEN ReportError(n.w, "selector")
         ELSE Let(sendNewServiceConfig(n.w, n.cs, d), LAMBDA s :
              IF ~s.ok THEN s.w
              ELSE [stop(s.w, s.w.curConfigSelector)
                      EXCEPT !.curConfigSelector = n.cs]))

\* (variant of onResolutionComplete with a slip: the previous selector is
\* stopped before the new service config is emitted)
onResolutionComplete_stopFirst(w, d) ==
    IF ~resolutionComplete(w) THEN w
    ELSE Let(newConfigSelector(w), LAMBDA n :
         IF n.err THEN ReportError(n.w, "selector")
         ELSE Let(sendNewServiceConfig(
                      stop(n.w, n.w.curConfigSelector), n.cs, d), LAMBDA s :
              IF ~s.ok THEN stop(s.w, n.cs)
              ELSE [s.w EXCEPT !.curConfigSelector = n.cs]))

onResolutionComplete(w, d) ==
    IF ~resolutionComplete(w) THEN w
    ELSE Let(newConfigSelector(w), LAMBDA n :
         IF n.err THEN ReportError(n.w, "selector")
         ELSE Let(sendNewServiceConfig(n.w, n.cs, d), LAMBDA s :
              IF ~s.ok THEN stop(s.w, n.cs)
              ELSE [stop(s.w, s.w.curConfigSelector)
                      EXCEPT !.curConfigSelector = n.cs]))

onError(w, err) == ReportError(w, err)

\* The first virtual host one of whose domains is the listener name.
RECURSIVE FindBestMatchingVirtualHost(_, _)
FindBestMatchingVirtualHost(host, vhs) ==
    IF vhs = <<>> THEN <<>>
    ELSE IF host \in Head(vhs).domains THEN <<Head(vhs)>>
    ELSE FindBestMatchingVirtualHost(host, Tail(vhs))

\* (variant of applyRouteConfigUpdate with a slip: the update is stored
\* before the virtual host is looked up)
applyRouteConfigUpdate_storeFirst(w, update, d) ==
    LET matchVh == FindBestMatchingVirtualHost(w.ldsResourceName,
                                               update.virtualHosts)
        w1 == [w EXCEPT !.currentRouteConfig = <<update>>]
    IN IF matchVh = <<>> THEN onError(w1, "no matching virtual host")
       ELSE onResolutionComplete(
                [w1 EXCEPT !.currentVirtualHost = matchVh,
                           !.routeConfigUpdateRecvd = TRUE], d)

applyRouteConfigUpdate(w, update, d) ==
    LET matchVh == FindBestMatchingVirtualHost(w.ldsResourceName,
                                               update.virtualHosts)
    IN IF matchVh = <<>> THEN onError(w, "no matching virtual host")
       ELSE onResolutionComplete(
                [w EXCEPT !.currentRouteConfig = <<update>>,
                          !.currentVirtualHost = matchVh,
                          !.routeConfigUpdateRecvd = TRUE], d)

\* (variant of onResourceNotFound with a slip: the stopped selector stays
\* the current one)
onResourceNotFound_keepSelector(w, d) ==
    Let(sendNewServiceConfig(w, NilSel, d), LAMBDA s :
        stop(s.w, s.w.curConfigSelector))

onResourceNotFound(w, d) ==
    Let(sendNewServiceConfig(w, NilSel, d), LAMBDA s :
        [stop(s.w, s.w.curConfigSelector) EXCEPT !.curConfigSelector = NilSel])

\* ------------------------------------------------------------- watchers
\* routeConfigWatcher.stop(): idempotent.
stopRouteConfigWatcher(w) ==
    LET rw == w.routeConfigWatcher[1] IN
    IF rw.stopped THEN w
    ELSE [w EXCEPT !.routeConfigWatcher = <<[rw EXCEPT !.stopped = TRUE]>>,
                   !.unstoppedRds[rw.name] = @ - 1]

newRouteConfigWatcher(w, name) ==
    [w EXCEPT !.routeConfigWatcher = <<[name |-> name, stopped |-> FALSE]>>,
              !.unstoppedRds[name] = @ + 1]

\* (variant of onListenerResourceUpdate with a slip: on a change of name the
\* current selector is retired at once)
onListenerResourceUpdate_dropSelector(w, update, d) ==
    LET w1 == [w EXCEPT !.currentListener = <<update.HTTPFilters>>,
                        !.listenerUpdateRecvd = TRUE]
    IN IF update.inline # <<>>
       THEN LET w2 == [w1 EXCEPT !.rdsResourceName = ""]
                w3 == IF w2.routeConfigWatcher # <<>>
                      THEN [stopRouteConfigWatcher(w2)
                              EXCEPT !.routeConfigWatcher = <<>>]
                      ELSE w2
            IN applyRouteConfigUpdate(w3, update.inline[1], d)
       ELSE IF w1.rdsResourceName = update.routeConfigName
       THEN onResolutionComplete(w1, d)
       ELSE LET w2 == [w1 EXCEPT !.rdsResourceName = update.routeConfigName]
                w3 == IF w2.routeConfigWatcher # <<>>
                      THEN [stopRouteConfigWatcher(w2)
                              EXCEPT !.currentVirtualHost = <<>>,
                                     !.routeConfigUpdateRecvd = FALSE]
                      ELSE w2
                w4 == newRouteConfigWatcher(w3, w3.rdsResourceName)
            IN [stop(w4, w4.curConfigSelector)
                  EXCEPT !.curConfigSelector = NilSel]

\* (variant of onListenerResourceUpdate with a slip: on a change of name the
\* old route-config watcher is not stopped)
onListenerResourceUpdate_keepWatcher(w, update, d) ==
    LET w1 == [w EXCEPT !.currentListener = <<update.HTTPFilters>>,
                        !.listenerUpdateRecvd = TRUE]
    IN IF update.inline # <<>>
       THEN LET w2 == [w1 EXCEPT !.rdsResourceName = ""]
                w3 == IF w2.routeConfigWatcher # <<>>
                      THEN [stopRouteConfigWatcher(w2)
                              EXCEPT !.routeConfigWatcher = <<>>]
                      ELSE w2
            IN applyRouteConfigUpdate(w3, update.inline[1], d)
       ELSE IF w1.rdsResourceName = update.routeConfigName
       THEN onResolutionComplete(w1, d)
       ELSE LET w2 == [w1 EXCEPT !.rdsResourceName = update.routeConfigName]
                w3 == IF w2.routeConfigWatcher # <<>>
                      THEN [w2 EXCEPT !.currentVirtualHost = <<>>,
                                      !.routeConfigUpdateRecvd = FALSE]
                      ELSE w2
            IN newRouteConfigWatcher(w3, w3.rdsResourceName)

onListenerResourceUpdate(w, update, d) ==
    LET w1 == [w EXCEPT !.currentListener = <<update.HTTPFilters>>,
                        !.listenerUpdateRecvd = TRUE]
    IN IF update.inline # <<>>
       THEN LET w2 == [w1 EXCEPT !.rdsResourceName = ""]
                w3 == IF w2.routeConfigWatcher # <<>>
                      THEN [stopRouteConfigWatcher(w2)
                              EXCEPT !.routeConfigWatcher = <<>>]
                      ELSE w2
            IN applyRouteConfigUpdate(w3, update.inline[1], d)
       ELSE IF w1.rdsResourceName = update.routeConfigName
       THEN onResolutionComplete(w1, d)
       ELSE LET w2 == [w1 EXCEPT !.rdsResourceName = update.routeConfigName]
                w3 == IF w2.routeConfigWatcher # <<>>
                      THEN [stopRouteConfigWatcher(w2)
                              EXCEPT !.currentVirtualHost = <<>>,
                                     !.routeConfigUpdateRecvd = FALSE]
                      ELSE w2
            IN newRouteConfigWatcher(w3, w3.rdsResourceName)

onListenerResourceError(w) == onError(w, "xds")

onListenerResourceNotFound(w, d) ==
    LET w1 == [w EXCEPT !.listenerUpdateRecvd = FALSE]
        w2 == IF w1.routeConfigWatcher # <<>>
              THEN stopRouteConfigWatcher(w1) ELSE w1
        w3 == [w2 EXCEPT !.rdsResourceName = "", !.currentVirtualHost = <<>>,
                         !.routeConfigUpdateRecvd = FALSE,
                         !.routeConfigWatcher = <<>>]
    IN onResourceNotFound(w3, d)

\* (variant of onRouteConfigResourceUpdate with a slip: no check of the name)
onRouteConfigResourceUpdate_anyName(w, name, update, d) ==
    applyRouteConfigUpdate(w, update, d)

onRouteConfigResourceUpdate(w, name, update, d) ==
    IF w.rdsResourceName # name THEN w
    ELSE applyRouteConfigUpdate(w, update, d)

onRouteConfigResourceError(w, name) == onError(w, "xds")

onRouteConfigResourceNotFound(w, name, d) ==
    IF w.rdsResourceName # name THEN w
    ELSE onResourceNotFound(w, d)

onClusterRefDownToZero(w, d) ==
    sendNewServiceConfig(w, w.curConfigSelector, d).w


\* ------------------------------------------------------------------ Build
\* Bootstrap configurations the xDS client may hold (<<>>: none).
Bootstrap(n) ==
    [CertProviderConfigs |-> n,
     ClientDefaultListenerResourceNameTemplate |-> DefaultTemplate,
     Authorities |-> [a \in {"auth", "plain"} |->
         [ClientListenerResourceNameTemplate |->
             IF a = "auth" THEN AuthTemplate ELSE <<>>]]]
Bootstraps == {<<>>, <<Bootstrap(0)>>, <<Bootstrap(1)>>}
TargetHosts == {"", "auth", "plain", "missing"}

sanityChecksOnBootstrapConfig(host, usesXDS, bootstrapConfig) ==
    IF bootstrapConfig = <<>>
    THEN [template |-> <<>>, err |-> "bootstrap configuration is empty"]
    ELSE LET bc == bootstrapConfig[1] IN
    IF usesXDS /\ bc.CertProviderConfigs = 0
    THEN [template |-> <<>>, err |-> "certificate_providers config missing"]
    ELSE IF host # "" /\ host \notin DOMAIN bc.Authorities
    THEN [template |-> <<>>, err |-> "authority not found"]
    ELSE IF host # ""
            /\ bc.Authorities[host].ClientListenerResourceNameTemplate # <<>>
    THEN [template |-> bc.Authorities[host].ClientListenerResourceNameTemplate,
          err |-> ""]
    ELSE [template |-> bc.ClientDefaultListenerResourceNameTemplate,
          err |-> ""]

\* (variant of closeCancel with a slip: the context is not cancelled)
closeCancel_none(w) == w

\* Close(), first half: cancel the serializer's context.
closeCancel(w) == [w EXCEPT !.serializerCancelled = TRUE]

\* Close(), after <-r.serializer.Done(): stop the watchers, release the client.
closeRelease(w) ==
    LET w1 == IF w.listenerWatcher # "nil"
              THEN [w EXCEPT !.listenerWatcher = "stopped"] ELSE w
        w2 == IF w1.routeConfigWatcher # <<>>
              THEN stopRouteConfigWatcher(w1) ELSE w1
        w3 == IF w2.xdsClientClose
              THEN [w2 EXCEPT !.xdsClientRefs = @ - 1] ELSE w2
    IN [w3 EXCEPT !.closeCalls = @ + 1]

\* (variant of build with a slip: no deferred Close() on the error returns)
build_noDefer(w, clientErr, host, usesXDS, bootstrapConfig) ==
    IF clientErr
    THEN [w EXCEPT !.built = "failed"]
    ELSE LET w1 == [w EXCEPT !.xdsClientClose = TRUE, !.xdsClientRefs = @ + 1]
             t == sanityChecksOnBootstrapConfig(host, usesXDS, bootstrapConfig)
         IN IF t.err # ""
            THEN [w1 EXCEPT !.built = "failed"]
            ELSE [w1 EXCEPT
                    !.ldsResourceName =
                        PopulateResourceTemplate(t.template, Endpoint),
                    !.listenerWatcher = "active",
                    !.built = "ok"]

build(w, clientErr, host, usesXDS, bootstrapConfig) ==
    IF clientErr
    THEN [closeRelease(closeCancel(w)) EXCEPT !.built = "failed"]
    ELSE LET w1 == [w EXCEPT !.xdsClientClose = TRUE, !.xdsClientRefs = @ + 1]
             t == sanityChecksOnBootstrapConfig(host, usesXDS, bootstrapConfig)
         IN IF t.err # ""
            THEN [closeRelease(closeCancel(w1)) EXCEPT !.built = "failed"]
            ELSE [w1 EXCEPT
                    !.ldsResourceName =
                        PopulateResourceTemplate(t.template, Endpoint),
                    !.listenerWatcher = "active",
                    !.built = "ok"]

\* ----------------------------------------------------------------- Init
Init ==
    /\ built = "no"
    /\ serializerCancelled = FALSE
    /\ closing = FALSE
    /\ closeCalls = 0
    /\ queue = <<>>
    /\ xdsClientClose = FALSE
    /\ xdsClientRefs = 0
    /\ ldsResourceName = <<>>
    /\ listenerWatcher = "nil"
    /\ listenerUpdateRecvd = FALSE
    /\ currentListener = <<>>
    /\ rdsResourceName = ""
    /\ routeConfigWatcher = <<>>
    /\ unstoppedRds = [n \in RdsNames |-> 0]
    /\ routeConfigUpdateRecvd = FALSE
    /\ currentRouteConfig = <<>>
    /\ currentVirtualHost = <<>>
    /\ activeClusters = {}
    /\ cfgOk = [c \in ClusterKeys |-> TRUE]
    /\ refCount = [c \in ClusterKeys |-> 0]
    /\ curConfigSelector = NilSel
    /\ sel = [i \in SelIds |-> FreeSel]
    /\ chanSel = NilSel
    /\ chanConfig = <<>>
    /\ inflight = [c \in ClusterKeys |-> 0]
    /\ op = "init"
    /\ last = Log(<<>>, FALSE, NilSel)

\* -------------------------------------------------------------- actions
Build ==
    /\ built = "no"
    /\ op' = "Build"
    /\ \E clientErr \in BOOLEAN, host \in TargetHosts, usesXDS \in BOOLEAN,
          bc \in Bootstraps :
          Commit(build(Begin(World, <<clientErr, host, usesXDS, bc>>),
                       clientErr, host, usesXDS, bc))

\* The channel calls Close(): the context is cancelled, Close waits.
CloseStart ==
    /\ built = "ok" /\ ~closing /\ closeCalls < MaxCloseCalls
    /\ Len(queue) <= MaxDrain
    /\ op' = "CloseStart"
    /\ Commit([closeCancel(Begin(World, <<>>)) EXCEPT !.closing = TRUE])

\* The serializer has run what was pending: Close goes on and returns.
CloseFinish ==
    /\ closing /\ queue = <<>>
    /\ op' = "Close"
    /\ Commit([closeRelease(Begin(World, <<>>)) EXCEPT !.closing = FALSE])

\* The xDS client calls the listener watcher, which schedules the callback.
PostListener ==
    /\ listenerWatcher = "active" /\ Len(queue) < MaxQueue
    /\ op' = "post"
    /\ Commit(Schedule(Begin(World, <<>>), Ev("lds", "")))

\* The xDS client calls an unstopped route-config watcher.
PostRouteConfig ==
    /\ Len(queue) < MaxQueue
    /\ op' = "post"
    /\ \E n \in RdsNames :
          /\ unstoppedRds[n] > 0
          /\ Commit(Schedule(Begin(World, <<>>), Ev("rds", n)))

\* The serializer runs the next callback.
Take(src, name) == queue # <<>> /\ Head(queue).src = src /\ op' = name
Taken ==
    [Begin([World EXCEPT !.queue = Tail(@)], <<>>)
       EXCEPT !.last.stale = (Head(queue).src = "rds"
                              /\ Head(queue).n # rdsResourceName)]
\* What the log keeps of a ListenerUpdate: inline or named route config.
LdsIn(update) ==
    [inline |-> update.inline # <<>>, routeConfigName |-> update.routeConfigName]
Window(d) == d = NoCluster \/ (d \in ClusterKeys /\ inflight[d] > 0)
Done(w) == Len(w.queue) <= MaxQueue /\ Commit(w)

ListenerUpdate ==
    /\ Take("lds", "onListenerResourceUpdate")
    /\ \E update \in ListenerUpdates, d \in ClusterKeys \cup {NoCluster} :
          /\ Window(d)
          /\ Done(onListenerResourceUpdate(
                 [Taken EXCEPT !.last.lds = LdsIn(update)], update, d))

ListenerError ==
    /\ Take("lds", "onListenerResourceError")
    /\ Done(onListenerResourceError(Taken))

ListenerNotFound ==
    /\ Take("lds", "onListenerResourceNotFound")
    /\ \E d \in ClusterKeys \cup {NoCluster} :
          /\ Window(d)
          /\ Done(onListenerResourceNotFound(Taken, d))

RouteConfigUpdate ==
    /\ Take("rds", "onRouteConfigResourceUpdate")
    /\ \E update \in RouteConfigs, d \in ClusterKeys \cup {NoCluster} :
          /\ Window(d)
          /\ Done(onRouteConfigResourceUpdate(
                 Taken, Head(queue).n, update, d))

RouteConfigError ==
    /\ Take("rds", "onRouteConfigResourceError")
    /\ Done(onRouteConfigResourceError(
           Taken, Head(queue).n))

RouteConfigNotFound ==
    /\ Take("rds", "onRouteConfigResourceNotFound")
    /\ \E d \in ClusterKeys \cup {NoCluster} :
          /\ Window(d)
          /\ Done(onRouteConfigResourceNotFound(
                 Taken, Head(queue).n, d))

ClusterRefDownToZero ==
    /\ Take("refDown", "onClusterRefDownToZero")
    /\ \E d \in ClusterKeys \cup {NoCluster} :
          /\ Window(d)
          /\ Done(onClusterRefDownToZero(Taken, d))

\* configSelector.SelectConfig on the selector the channel holds.
SelectConfig(w, c) ==
    [w EXCEPT !.refCount[c] = @ + 1, !.inflight[c] = @ + 1]

Inflight == inflight[kA] + inflight[kP]

Pick ==
    /\ built = "ok" /\ chanSel # NilSel /\ sel[chanSel].stops = 0
    /\ Inflight < MaxInflight
    /\ op' = "SelectConfig"
    /\ \E c \in sel[chanSel].clusters :
          Commit(SelectConfig(Begin(World, <<>>), c))

\* An admitted RPC is committed, outside any serializer callback.
Committed ==
    /\ op' = "OnCommitted"
    /\ \E c \in ClusterKeys :
          /\ inflight[c] > 0
          /\ Done(OnCommitted(Begin(World, <<>>), c))

Next ==
    \/ Build
    \/ CloseStart
    \/ CloseFinish
    \/ PostListener
    \/ PostRouteConfig
    \/ ListenerUpdate
    \/ ListenerError
    \/ ListenerNotFound
    \/ RouteConfigUpdate
    \/ RouteConfigError
    \/ RouteConfigNotFound
    \/ ClusterRefDownToZero
    \/ Pick
    \/ Committed

Spec == Init /\ [][Next]_vars


\* ================================================================ claims
SerializerOps ==
    {"onListenerResourceUpdate", "onListenerResourceError",
     "onListenerResourceNotFound", "onRouteConfigResourceUpdate",
     "onRouteConfigResourceError", "onRouteConfigResourceNotFound",
     "onClusterRefDownToZero"}

\* The UpdateState calls of the last step.
Updates == {last.updates[i] : i \in 1..Len(last.updates)}

\* refCount of c when pruneActiveClusters read it, for the update u: the
\* OnCommitted hook that ran between the prune and the update took one off.
RefAtPrune(u, c) == u.refCount[c] + (IF u.committed = c THEN 1 ELSE 0)

\* C1 (as claimed): every service configuration handed to the channel lists
\* exactly the clusters that are in activeClusters with refCount >= 1 at the
\* moment of the UpdateState call.
C1_AsClaimed ==
    \A u \in Updates :
        u.sc.children = {c \in u.activeClusters : u.refCount[c] >= 1}

\* C1 (amended): every service configuration handed to the channel lists
\* exactly the entries pruneActiveClusters left in activeClusters, which are
\* the clusters whose refCount was >= 1 when the prune read it; a listed
\* cluster has refCount 0 at the UpdateState call only when an OnCommitted
\* hook ran in between.
C1_EmissionListsPrunedTable ==
    \A u \in Updates :
        /\ u.sc.children = u.activeClusters
        /\ u.sc.children = {c \in ClusterKeys : c \in u.activeClusters
                                               /\ RefAtPrune(u, c) >= 1}
        /\ \A c \in u.sc.children : u.refCount[c] >= 1 \/ u.committed = c

\* An update went out while an RPC on a listed cluster was committed between
\* the prune and the UpdateState call.
C1_Witness ==
    \E u \in Updates :
        /\ u.committed \in u.sc.children
        /\ u.refCount[u.committed] = 0
        /\ \E c \in u.sc.children : u.refCount[c] >= 1

\* C2: an entry leaves activeClusters only in a serializer callback, only
\* with refCount 0 and referenced by no route of the current selector (the
\* one before and the one after the callback); and a cluster with an admitted
\* RPC whose OnCommitted hook has not fired is listed in every service
\* configuration handed to the channel.
C2_PrunedOnlyUnreferenced ==
    [][ /\ \A c \in activeClusters \ activeClusters' :
              /\ op' \in SerializerOps
              /\ refCount[c] = 0
              /\ curConfigSelector # NilSel
                    => c \notin sel[curConfigSelector].clusters
              /\ curConfigSelector' # NilSel
                    => c \notin sel'[curConfigSelector'].clusters
        /\ \A i \in 1..Len(last'.updates) : \A c \in ClusterKeys :
              last'.updates[i].inflight[c] > 0
                 => c \in last'.updates[i].sc.children ]_vars

\* A route-config update took a cluster out of every route while an RPC on it
\* was in flight: the update's service configuration still lists it.
C2_Witness ==
    /\ op = "onRouteConfigResourceUpdate"
    /\ \E u \in Updates : \E c \in u.sc.children :
          /\ u.cs # NilSel /\ u.cs = curConfigSelector
          /\ c \notin sel[u.cs].clusters
          /\ u.inflight[c] > 0

\* C3 (as claimed): once Close() has returned and every admitted RPC has
\* been committed, increments and decrements of every refCount balance: no
\* refCount is left above 0.
C3_AsClaimed ==
    (closeCalls >= 1 /\ ~closing /\ Inflight = 0)
        => \A c \in ClusterKeys : refCount[c] = 0

NotFoundOps == {"onListenerResourceNotFound", "onRouteConfigResourceNotFound"}

\* C4 (as claimed): a listener not-found, or a not-found for the subscribed
\* route configuration, makes exactly one UpdateState call, with the service
\* configuration of the active-cluster table as it stands (clusters with
\* RPCs in flight included) and a nil selector; it stops the previous
\* selector exactly once and leaves curConfigSelector nil.
C4_AsClaimed ==
    (op \in NotFoundOps /\ ~last.stale) =>
        /\ Len(last.updates) = 1
        /\ \A u \in Updates :
              /\ u.cs = NilSel
              /\ u.sc.children = u.activeClusters
              /\ \A c \in ClusterKeys : u.inflight[c] > 0 => c \in u.sc.children
        /\ last.stopped = (IF last.prev = NilSel THEN <<>> ELSE <<last.prev>>)
        /\ curConfigSelector = NilSel

\* What the not-found handlers do whether or not the service configuration
\* could be generated (used to see that generation failure is the only way
\* C4 fails).
C4_ExceptGenerationFailure ==
    (op \in NotFoundOps /\ ~last.stale) =>
        /\ last.stopped = (IF last.prev = NilSel THEN <<>> ELSE <<last.prev>>)
        /\ curConfigSelector = NilSel
        /\ \A u \in Updates :
              /\ u.cs = NilSel
              /\ u.sc.children = u.activeClusters
              /\ \A c \in ClusterKeys : u.inflight[c] > 0 => c \in u.sc.children
        /\ \/ Len(last.updates) = 1 /\ last.reports = 0
           \/ /\ last.updates = <<>> /\ last.reports = 1
              /\ \E c \in activeClusters : ~cfgOk[c]

\* The serializer's goroutine runs the callbacks it holds, one at a time.
Serializer ==
    \/ ListenerUpdate \/ ListenerError \/ ListenerNotFound
    \/ RouteConfigUpdate \/ RouteConfigError \/ RouteConfigNotFound
    \/ ClusterRefDownToZero

\* A callback can run exactly when one is pending.
SerializerEnabled == (queue # <<>>) <=> ENABLED <<Serializer>>_vars

\* WF_vars(Serializer), with ENABLED <<Serializer>>_vars written as
\* queue # <<>> (SerializerEnabled): the serializer does not stop while a
\* callback is pending.
SerializerRuns == []<>(queue = <<>>) \/ []<><<Serializer>>_vars

\* The serializer keeps running, and every admitted RPC is eventually
\* committed (the premise of the drain claim).
FairSpec == Spec /\ SerializerRuns /\ SF_vars(Committed)

NotFoundHandled == op \in NotFoundOps /\ ~last.stale

EmptyEmitted == chanConfig = <<EmptyConfig>> /\ chanSel = NilSel

\* A new resource update was applied, or the channel called Close().
Disturbed ==
    \/ op = "onListenerResourceUpdate"
    \/ op = "onRouteConfigResourceUpdate" /\ ~last.stale
    \/ serializerCancelled

\* C5: after a not-found was handled, if every RPC in flight is eventually
\* committed, the resolver is not closed and no new resource update is
\* applied, then eventually the channel holds the empty service
\* configuration "{}" with no selector; and from then on, until a new
\* resource update is applied, the channel's configuration and selector
\* stay that way (any further emission is "{}" with no selector again).
C5_DrainsToEmpty ==
    /\ NotFoundHandled ~> (EmptyEmitted \/ Disturbed)
    /\ [][ (EmptyEmitted /\ curConfigSelector = NilSel
            /\ op' \notin {"onListenerResourceUpdate",
                                "onRouteConfigResourceUpdate"})
             => /\ EmptyEmitted'
                /\ \A i \in 1..Len(last'.updates) :
                      /\ last'.updates[i].sc = EmptyConfig
                      /\ last'.updates[i].cs = NilSel ]_vars

\* The nil selector was installed with an RPC still in flight, and after its
\* OnCommitted hook the ref-down-to-zero callback emitted "{}".
C5_Witness ==
    /\ op = "onClusterRefDownToZero"
    /\ \E u \in Updates : u.sc = EmptyConfig /\ u.cs = NilSel
    /\ curConfigSelector = NilSel
    /\ listenerUpdateRecvd = FALSE
    /\ ~serializerCancelled

\* The fields of xdsResolver the serializer owns, and what the channel holds.
resolverState ==
    <<ldsResourceName, listenerWatcher, listenerUpdateRecvd, currentListener,
      rdsResourceName, routeConfigWatcher, unstoppedRds,
      routeConfigUpdateRecvd, currentRouteConfig, currentVirtualHost,
      activeClusters, cfgOk, curConfigSelector, sel, chanSel, chanConfig>>

\* A step that called nothing on the channel and stopped no selector.
Silent(l) == l.updates = <<>> /\ l.reports = 0 /\ l.stopped = <<>>

\* C6: a route-config update or route-config not-found callback for a name
\* other than rdsResourceName changes no resolver state (flags, route
\* config, virtual host, activeClusters, refCounts, selector, watchers) and
\* makes no UpdateState call.
C6_StaleRouteConfigIgnored ==
    [][ (op' \in {"onRouteConfigResourceUpdate",
                  "onRouteConfigResourceNotFound"} /\ last'.stale)
          => /\ UNCHANGED resolverState
             /\ UNCHANGED refCount
             /\ queue' = Tail(queue)
             /\ Silent(last') ]_vars

\* A route-config update for a name no longer subscribed was run while a
\* selector built from another route configuration is installed.
C6_Witness ==
    /\ op = "onRouteConfigResourceUpdate" /\ last.stale
    /\ curConfigSelector # NilSel
    /\ rdsResourceName # ""

\* C7 (as claimed): a route-config error callback for a name other than
\* rdsResourceName is dropped: no ReportError call, no resolver state
\* changed.
C7_AsClaimed ==
    [][ (op' = "onRouteConfigResourceError" /\ last'.stale)
          => /\ last'.reports = 0
             /\ UNCHANGED resolverState
             /\ UNCHANGED refCount ]_vars

\* C8 (as claimed): over any number of Close() calls, the deferred one of a
\* failed Build included, the xDS client reference taken in Build is
\* released exactly once.
C8_AsClaimed ==
    /\ xdsClientRefs \in {0, 1}
    /\ closeCalls >= 1 => xdsClientRefs = 0

\* C9: Close() stops the watchers and releases the xDS client only after the
\* serializer was cancelled and has run what was pending; once the
\* serializer is cancelled nothing more is queued on it; and after Close()
\* has returned no callback or RPC hook changes resolver state or calls
\* UpdateState or ReportError.
C9_CloseCancelsAndDrains ==
    [][ /\ op' = "Close" => serializerCancelled /\ queue = <<>>
        /\ (listenerWatcher' = "stopped" /\ listenerWatcher = "active")
              => serializerCancelled /\ queue = <<>>
        /\ xdsClientRefs' < xdsClientRefs
              => serializerCancelled /\ queue = <<>>
        /\ serializerCancelled => /\ serializerCancelled'
                                  /\ Len(queue') <= Len(queue)
        /\ (closeCalls >= 1 /\ ~closing /\ op' \notin {"CloseStart", "Close"})
              => /\ UNCHANGED resolverState
                 /\ last'.updates = <<>> /\ last'.reports = 0 ]_vars

\* After Close() returned, the OnCommitted hook of an RPC took a refCount to
\* zero and its ref-down-to-zero notification was discarded.
C9_Witness ==
    /\ closeCalls >= 1 /\ ~closing /\ built = "ok"
    /\ op = "OnCommitted" /\ last.discarded
    /\ queue = <<>>

\* The inputs with which Build must fail: no xDS client, empty bootstrap,
\* xDS credentials without certificate providers, unknown authority.
BuildMustFail(in) ==
    \/ in[1]
    \/ in[4] = <<>>
    \/ in[3] /\ in[4][1].CertProviderConfigs = 0
    \/ in[2] # "" /\ in[2] \notin {"auth", "plain"}

\* C10: when Build fails it returns no resolver (nothing can be called on
\* it), no listener watcher was started, the serializer is cancelled and
\* holds nothing, and the xDS client reference, if one was taken, is
\* released; Build fails on exactly the inputs listed.
C10_FailedBuildReleases ==
    /\ op = "Build" => (built = "failed" <=> BuildMustFail(last.n))
    /\ built = "failed" =>
          /\ op = "Build"
          /\ listenerWatcher = "nil" /\ routeConfigWatcher = <<>>
          /\ serializerCancelled /\ queue = <<>>
          /\ xdsClientRefs = 0
          /\ closeCalls = 1

\* Build failed on a target authority the bootstrap does not list, after the
\* xDS client had been created.
C10_Witness ==
    /\ built = "failed" /\ op = "Build"
    /\ xdsClientClose
    /\ last.n[2] = "missing"

\* Route-config watchers that were started and not stopped.
UnstoppedWatchers == unstoppedRds["rc1"] + unstoppedRds["rc2"]

\* C11: at most one route-config watcher is unstopped, and it is the one in
\* r.routeConfigWatcher, bound to rdsResourceName; after a listener update
\* with an inline route configuration rdsResourceName is empty and there is
\* no route-config watcher.
C11_OneRouteConfigWatcher ==
    /\ UnstoppedWatchers <= 1
    /\ \A n \in RdsNames : unstoppedRds[n] > 0 =>
          /\ n = rdsResourceName
          /\ routeConfigWatcher = <<[name |-> n, stopped |-> FALSE]>>
    /\ (op = "onListenerResourceUpdate" /\ last.lds.inline) =>
          /\ rdsResourceName = ""
          /\ routeConfigWatcher = <<>>
          /\ UnstoppedWatchers = 0

\* A listener update with an inline route configuration was handled while a
\* callback of the route-config watcher it cancelled is still pending.
C11_Witness ==
    /\ op = "onListenerResourceUpdate" /\ last.lds.inline
    /\ \E i \in 1..Len(queue) : queue[i].src = "rds"

\* C12: every cluster the current config selector references is in
\* activeClusters with refCount >= 1, in every reachable state.
C12_CurrentSelectorHoldsRefs ==
    curConfigSelector # NilSel =>
        \A c \in sel[curConfigSelector].clusters :
            c \in activeClusters /\ refCount[c] >= 1

\* A failed emission for a new selector left the previous selector current,
\* holding its references alone (no RPC in flight).
C12_Witness ==
    /\ op = "onRouteConfigResourceUpdate"
    /\ last.reports = 1 /\ last.stopped # <<>>
    /\ curConfigSelector # NilSel /\ curConfigSelector = last.prev
    /\ Inflight = 0
    /\ \E c \in sel[curConfigSelector].clusters : refCount[c] = 1

\* The step is a listener update that names a route configuration other
\* than the subscribed one.
SwitchStep ==
    /\ op' = "onListenerResourceUpdate"
    /\ ~last'.lds.inline
    /\ rdsResourceName # ""
    /\ last'.lds.routeConfigName # rdsResourceName

\* The resolver waits for the first update of the route configuration it
\* switched to, with the previous selector installed.
AwaitingRouteConfig ==
    /\ listenerUpdateRecvd /\ ~routeConfigUpdateRecvd
    /\ rdsResourceName # ""
    /\ curConfigSelector # NilSel

\* 1 if b, else 0.
One(b) == IF b THEN 1 ELSE 0

\* C13: a listener update that switches to another route-config name calls
\* nothing on the channel and leaves curConfigSelector and every refCount as
\* they are.  While the resolver waits for the new route configuration, the
\* previous selector stays installed and unstopped through RPC picks and
\* completions, ref-down notifications, transient errors and stale
\* route-config callbacks (a not-found or another listener update is a
\* resource event of its own).  A route-config update for the new name that
\* is emitted installs a new selector, stops the previous one once and takes
\* its references off the refCounts; one that is not emitted keeps the
\* previous selector.
C13_SelectorServesUntilNewRouteConfig ==
    [][ /\ SwitchStep =>
              /\ Silent(last')
              /\ curConfigSelector' = curConfigSelector
              /\ chanSel' = chanSel /\ chanConfig' = chanConfig
              /\ refCount' = refCount /\ sel' = sel
              /\ rdsResourceName' = last'.lds.routeConfigName
        /\ (AwaitingRouteConfig
            /\ op' \notin {"onListenerResourceUpdate",
                           "onListenerResourceNotFound"}
            /\ ~(op' \in {"onRouteConfigResourceUpdate",
                          "onRouteConfigResourceNotFound"} /\ ~last'.stale))
              => /\ curConfigSelector' = curConfigSelector
                 /\ chanSel' = curConfigSelector
                 /\ sel'[curConfigSelector].stops = 0
        /\ (AwaitingRouteConfig
            /\ op' = "onRouteConfigResourceUpdate" /\ ~last'.stale)
              => IF last'.updates = <<>>
                 THEN /\ curConfigSelector' = curConfigSelector
                      /\ chanSel' = chanSel
                      /\ curConfigSelector \notin
                            {last'.stopped[i] : i \in 1..Len(last'.stopped)}
                 ELSE /\ curConfigSelector' \notin {curConfigSelector, NilSel}
                      /\ chanSel' = curConfigSelector'
                      /\ last'.stopped = <<curConfigSelector>>
                      /\ \A c \in ClusterKeys :
                            refCount'[c] = refCount[c]
                              + One(c \in sel'[curConfigSelector'].clusters)
                              - One(c \in sel[curConfigSelector].clusters)
                              - One(last'.committed = c) ]_vars

\* After the switch the previous selector is still the channel's, unstopped,
\* while no route configuration for the new name has been received.
C13_Witness ==
    /\ op = "onListenerResourceUpdate" /\ ~last.lds.inline
    /\ AwaitingRouteConfig
    /\ currentVirtualHost = <<>>
    /\ rdsResourceName = last.lds.routeConfigName
    /\ chanSel = curConfigSelector /\ sel[chanSel].stops = 0
    /\ \E i \in 1..Len(queue) : queue[i].src = "rds"
                                /\ queue[i].n # rdsResourceName

\* The serializer runs its next callback; `in` is the update an xDS callback
\* carries, d the cluster of an RPC committed inside the callback.
RunCallback(w, in, d) ==
    LET e == Head(w.queue)
        w1 == [w EXCEPT !.queue = Tail(@), !.last.committed = NoCluster]
    IN IF e.src = "refDown" THEN onClusterRefDownToZero(w1, d)
       ELSE IF e.src = "lds" THEN onListenerResourceUpdate(w1, in, d)
       ELSE onRouteConfigResourceUpdate(w1, e.n, in, d)

\* ... and then the ref-down notifications scheduled meanwhile.
RECURSIVE RunRefDowns(_)
RunRefDowns(w) ==
    IF w.queue = <<>> THEN w
    ELSE RunRefDowns(RunCallback(w, <<>>, NoCluster))

\* Both pending callbacks, in the order of w.queue; ds[i] is committed inside
\* the i-th.
RunBoth(w, in, ds) ==
    RunRefDowns(RunCallback(RunCallback(w, in, ds[1]), in, ds[2]))

\* A ref-down-to-zero notification and an xDS callback are what is pending.
PendingPair ==
    /\ ~serializerCancelled /\ Len(queue) = 2
    /\ {queue[1].src, queue[2].src} \in {{"refDown", "lds"}, {"refDown", "rds"}}

PairInputs ==
    IF "lds" \in {queue[1].src, queue[2].src} THEN ListenerUpdates
    ELSE RouteConfigs

NoCommit == <<NoCluster, NoCluster>>
PairCommits ==
    {NoCommit}
    \cup {<<c, NoCluster>> : c \in {x \in ClusterKeys : inflight[x] > 0}}
    \cup {<<NoCluster, c>> : c \in {x \in ClusterKeys : inflight[x] > 0}}

Swapped(w) == [w EXCEPT !.queue = <<w.queue[2], w.queue[1]>>]

EmissionsOf(w) == {w.last.updates[i] : i \in 1..Len(w.last.updates)}

\* C14 (as claimed): with a ref-down-to-zero notification and an update both
\* pending (and no RPC completing meanwhile), running them in either order
\* ends with the same activeClusters and the same cluster set in the last
\* service configuration, and no emission lists a cluster with refCount 0.
C14_AsClaimed ==
    PendingPair =>
        \A in \in PairInputs :
            LET a == RunBoth(Begin(World, <<>>), in, NoCommit)
                b == RunBoth(Swapped(Begin(World, <<>>)), in, NoCommit)
            IN /\ a.activeClusters = b.activeClusters
               /\ a.chanConfig = b.chanConfig
               /\ \A u \in EmissionsOf(a) \cup EmissionsOf(b) :
                     \A c \in u.sc.children : u.refCount[c] >= 1

\* The cluster set of the service configuration the channel holds.
ChildrenOf(w) ==
    IF w.chanConfig = <<>> THEN {} ELSE w.chanConfig[1].children

\* A selector build or a service-config generation failed in the run.
BuildOrEmissionFailed(w) ==
    \E i \in 1..Len(w.last.errs) : w.last.errs[i] \in {"selector", "marshal"}

\* C14 (amended): with a ref-down-to-zero notification and an update both
\* pending, no emission made in either order lists a cluster whose refCount
\* was 0 when pruneActiveClusters read it (RPC completions inside the
\* callbacks included). When no RPC completes meanwhile, both orders end
\* with the same refCounts, and every cluster with refCount >= 1 is in the
\* final activeClusters and in the last service configuration of both
\* orders: the two tables, and the two last service configurations, differ
\* at most in clusters with refCount 0. They differ that way only when a
\* selector build or a service-config generation fails; in every other
\* case (a rejected update with no matching virtual host included) they
\* are identical.
C14_EitherOrder ==
    PendingPair =>
        \A in \in PairInputs, ds \in PairCommits :
            LET a == RunBoth(Begin(World, <<>>), in, ds)
                b == RunBoth(Swapped(Begin(World, <<>>)), in, ds)
            IN /\ \A u \in EmissionsOf(a) \cup EmissionsOf(b) :
                     /\ u.sc.children = u.activeClusters
                     /\ \A c \in u.sc.children : RefAtPrune(u, c) >= 1
               /\ ds = NoCommit
                     => /\ a.refCount = b.refCount
                        /\ \A c \in ClusterKeys :
                              a.refCount[c] >= 1
                                 => /\ c \in a.activeClusters
                                    /\ c \in b.activeClusters
                                    /\ c \in ChildrenOf(a)
                                    /\ c \in ChildrenOf(b)
                        /\ \A c \in ClusterKeys :
                              \/ a.refCount[c] = 0
                              \/ /\ c \in a.activeClusters
                                       <=> c \in b.activeClusters
                                 /\ c \in ChildrenOf(a) <=> c \in ChildrenOf(b)
                        /\ (~BuildOrEmissionFailed(a)
                            /\ ~BuildOrEmissionFailed(b))
                              => /\ a.activeClusters = b.activeClusters
                                 /\ a.chanConfig = b.chanConfig

\* Both are pending; one update installs a new selector in either order
\* while the prune removes an entry of the table, and another update fails
\* to build its selector and leaves the two orders with different tables.
C14_Witness ==
    /\ PendingPair
    /\ \E in \in PairInputs :
          LET a == RunBoth(Begin(World, <<>>), in, NoCommit)
              b == RunBoth(Swapped(Begin(World, <<>>)), in, NoCommit)
          IN /\ a.last.reports = 0 /\ b.last.reports = 0
             /\ a.curConfigSelector \notin {NilSel, curConfigSelector}
             /\ b.curConfigSelector \notin {NilSel, curConfigSelector}
             /\ a.activeClusters # activeClusters
             /\ a.activeClusters # {}
    /\ \E in \in PairInputs :
          LET a == RunBoth(Begin(World, <<>>), in, NoCommit)
              b == RunBoth(Swapped(Begin(World, <<>>)), in, NoCommit)
          IN /\ BuildOrEmissionFailed(a) /\ BuildOrEmissionFailed(b)
             /\ a.activeClusters # b.activeClusters
             /\ \E c \in ClusterKeys : a.refCount[c] >= 1

\* A listener update that names a route configuration other than the one
\* the resolver is subscribed to (none, after an inline route configuration).
NameChangeStep ==
    /\ op' = "onListenerResourceUpdate"
    /\ ~last'.lds.inline
    /\ last'.lds.routeConfigName # rdsResourceName

\* C15 (as claimed): after a listener update that names another route
\* configuration, whatever came before, routeConfigUpdateRecvd is false and
\* currentVirtualHost is nil, currentRouteConfig is unchanged,
\* rdsResourceName is the new name and a new watcher for it is in place.
C15_AsClaimed ==
    [][ NameChangeStep =>
          /\ ~routeConfigUpdateRecvd'
          /\ currentVirtualHost' = <<>>
          /\ currentRouteConfig' = currentRouteConfig
          /\ rdsResourceName' = last'.lds.routeConfigName
          /\ routeConfigWatcher' =
                 <<[name |-> last'.lds.routeConfigName, stopped |-> FALSE]>>
      ]_vars

\* C16 (as claimed): a resource-not-found clears the received flag of the
\* resource that disappeared: listenerUpdateRecvd after
\* onListenerResourceNotFound, routeConfigUpdateRecvd after
\* onRouteConfigResourceNotFound for the subscribed name; the
\* resolution-complete guard is false afterwards.
C16_AsClaimed ==
    [][ /\ op' = "onListenerResourceNotFound" => ~listenerUpdateRecvd'
        /\ (op' = "onRouteConfigResourceNotFound" /\ ~last'.stale)
              => /\ ~routeConfigUpdateRecvd'
                 /\ ~(listenerUpdateRecvd' /\ routeConfigUpdateRecvd'
                      /\ currentVirtualHost' # <<>>)
      ]_vars

UpdateOps == {"onListenerResourceUpdate", "onRouteConfigResourceUpdate"}

\* An update handler built a selector and could not emit its service config.
EmissionFailedStep == op' \in UpdateOps /\ last'.errs = <<"marshal">>

\* C17: when the service config of a newly built selector cannot be
\* emitted, the new selector is stopped and every refCount is back at its
\* value before the event (less the reference an RPC released meanwhile),
\* UpdateState is not called, the error is reported once, and
\* curConfigSelector is still the previous selector, not stopped.
C17_FailedEmissionRollsBack ==
    [][ EmissionFailedStep =>
          /\ last'.updates = <<>>
          /\ last'.reports = 1
          /\ Len(last'.stopped) = 1
          /\ last'.stopped[1] \notin {NilSel, curConfigSelector}
          /\ refCount' = [c \in ClusterKeys |->
                             refCount[c] - One(last'.committed = c)]
          /\ curConfigSelector' = curConfigSelector
          /\ chanSel' = chanSel /\ chanConfig' = chanConfig
          /\ curConfigSelector # NilSel
                => sel'[curConfigSelector] = sel[curConfigSelector]
      ]_vars

\* An emission failed while a selector was installed and serving.
C17_Witness ==
    /\ op \in UpdateOps /\ last.errs = <<"marshal">>
    /\ last.prev # NilSel /\ curConfigSelector = last.prev
    /\ last.stopped # <<>>
    /\ \E c \in sel[curConfigSelector].clusters : refCount[c] >= 1

\* An update handler could not build a selector: a route's match
\* expression is invalid.
BuildFailedStep == op' \in UpdateOps /\ last'.errs = <<"selector">>

\* C18: when a selector cannot be built because a route's match expression
\* is invalid, no refCount changes, no service config is emitted, the error
\* is reported once, and curConfigSelector is still the previous selector.
C18_FailedBuildTakesNoRefs ==
    [][ BuildFailedStep =>
          /\ refCount' = refCount
          /\ last'.updates = <<>>
          /\ last'.reports = 1
          /\ last'.stopped = <<>>
          /\ curConfigSelector' = curConfigSelector
          /\ chanSel' = chanSel /\ chanConfig' = chanConfig
          /\ curConfigSelector # NilSel
                => sel'[curConfigSelector] = sel[curConfigSelector]
      ]_vars

\* A build failed while a selector was installed, after the clusters of the
\* failing route configuration had entered the table.
C18_Witness ==
    /\ op \in UpdateOps /\ last.errs = <<"selector">>
    /\ last.prev # NilSel /\ curConfigSelector = last.prev
    /\ \E c \in activeClusters : refCount[c] = 0
    /\ \E c \in activeClusters : refCount[c] >= 1

\* The handling of an error that is not a resource-not-found: a listener
\* error, a route-config error for the subscribed name, or a route-config
\* update none of whose virtual hosts matches ldsResourceName.
PlainErrorStep ==
    \/ op' = "onListenerResourceError"
    \/ op' = "onRouteConfigResourceError" /\ ~last'.stale
    \/ /\ op' = "onRouteConfigResourceUpdate" /\ ~last'.stale
       /\ last'.errs = <<"no matching virtual host">>

\* C19: an error that is not a resource-not-found is forwarded with one
\* ReportError call and leaves the resolver state unchanged: received
\* flags, currentListener, currentRouteConfig, currentVirtualHost,
\* rdsResourceName, watchers, activeClusters, refCounts, curConfigSelector.
C19_ErrorsLeaveStateUnchanged ==
    [][ PlainErrorStep =>
          /\ last'.reports = 1
          /\ last'.updates = <<>> /\ last'.stopped = <<>>
          /\ UNCHANGED resolverState
          /\ refCount' = refCount
      ]_vars

\* A route-config update without a matching virtual host was handled while
\* a selector built from an earlier route configuration was installed.
C19_Witness ==
    /\ op = "onRouteConfigResourceUpdate" /\ ~last.stale
    /\ last.errs = <<"no matching virtual host">>
    /\ curConfigSelector # NilSel
    /\ routeConfigUpdateRecvd /\ currentVirtualHost # <<>>

\* An update handler replaces the installed selector by a newly built one.
SwitchOverStep ==
    /\ op' \in UpdateOps
    /\ curConfigSelector # NilSel
    /\ curConfigSelector' \notin {NilSel, curConfigSelector}

\* C20: at a switch-over the new selector's references are taken and the
\* service config is emitted before the previous selector's references are
\* released: the one emission carries the new selector, is made with the
\* references of both selectors held, and lists the clusters of both; the
\* previous selector is stopped afterwards, and a cluster both selectors
\* reference keeps a refCount of at least 1.
C20_EmitBeforeRelease ==
    [][ SwitchOverStep =>
          LET old == sel[curConfigSelector].clusters
              new == sel'[curConfigSelector'].clusters
              u == last'.updates[1]
          IN /\ Len(last'.updates) = 1
             /\ u.cs = curConfigSelector'
             /\ old \cup new \subseteq u.sc.children
             /\ \A c \in ClusterKeys :
                   /\ u.refCount[c] = refCount[c] + One(c \in new)
                                        - One(last'.committed = c)
                   /\ refCount'[c] = u.refCount[c] - One(c \in old)
             /\ last'.stopped = <<curConfigSelector>>
             /\ \A c \in old \cap new :
                   u.refCount[c] >= 1 /\ refCount'[c] >= 1
      ]_vars

\* A switch-over between two selectors that share a cluster and differ in
\* another one.
C20_Witness ==
    /\ op \in UpdateOps
    /\ last.prev # NilSel
    /\ curConfigSelector \notin {NilSel, last.prev}
    /\ Len(last.updates) = 1
    /\ \E c \in sel[curConfigSelector].clusters :
          /\ last.updates[1].refCount[c] >= 2
          /\ last.updates[1].inflight[c] = 0
    /\ sel[curConfigSelector].clusters # last.updates[1].sc.children

\* The references on cluster c: one per admitted RPC not yet committed, one
\* for the current selector when it routes to c.
HeldRefs(c) ==
    inflight[c] + One(curConfigSelector # NilSel
                      /\ c \in sel[curConfigSelector].clusters)

\* C21: no refCount is ever negative: it counts the RPCs in flight on the
\* cluster plus the current selector's reference, since every admitted RPC
\* decrements once and every selector is stopped at most once, and only by
\* an update handler (replaced, or its emission failed) or a not-found.
C21_RefCountsNeverNegative ==
    /\ [](\A c \in ClusterKeys :
             refCount[c] >= 0 /\ refCount[c] = HeldRefs(c))
    /\ [][ last'.stopped # <<>> =>
             /\ Len(last'.stopped) = 1
             /\ op' \in UpdateOps \cup NotFoundOps
             /\ last'.stopped[1] = curConfigSelector
                   => /\ sel[curConfigSelector].stops = 0
                      /\ curConfigSelector' # curConfigSelector
             /\ last'.stopped[1] # curConfigSelector
                   => /\ last'.errs = <<"marshal">>
                      /\ last'.stopped[1] # chanSel
         ]_vars

\* A not-found stopped the selector while an RPC was in flight on one of its
\* clusters, and the RPC has now been committed: the entry is at zero.
C21_Witness ==
    /\ op = "OnCommitted"
    /\ curConfigSelector = NilSel
    /\ last.committed \in activeClusters
    /\ refCount[last.committed] = 0
    /\ chanSel = NilSel

\* C22 (as claimed): after every serializer callback the selector last
\* delivered to the channel through UpdateState (nil when none) is
\* curConfigSelector, and the channel holds no stopped selector.
C22_AsClaimed ==
    op \in SerializerOps =>
        /\ chanSel = curConfigSelector
        /\ chanSel # NilSel => sel[chanSel].stops = 0

====
